---- MODULE Spec2Model ----
(***************************************************************************)
(* A model of internal/ai/scripts/hf_chat.py: a worker process that loads  *)
(* a causal language model, then serves line-delimited JSON requests read  *)
(* from stdin, one reply line per request on stdout, diagnostics on stderr.*)
(*                                                                         *)
(* A line of text is a sequence of lexical tokens; json.loads and          *)
(* json.dumps are modelled on those tokens.  A string value is a record    *)
(* [s, gen]: the text s followed by gen generated tokens (gen = 0 for a    *)
(* string that no generation produced).                                    *)
(***************************************************************************)
EXTENDS Integers, Sequences, FiniteSets, TLC

\* ------------------------------------------------------------------ bounds

\* The longest stdin stream explored, in lines.
MaxLines == 2

\* ----------------------------------------------------------- program constants

\* max_length=200 in model.generate(**inputs, max_length=200).
MaxLength == 200

\* sys.exit(1), and the status of an interpreter ended by an uncaught exception.
ExitFailure == 1

\* The status of an interpreter that runs off the end of the script.
ExitSuccess == 0

\* --------------------------------------------------------------- strings

\* A plain string (no generated continuation).
S(x) == [s |-> x, gen |-> 0]


\* ---------------------------------------------------------------- tokens

Tok(t, v) == [t |-> t, v |-> v]

LBrace == Tok("{", S(""))
RBrace == Tok("}", S(""))
LBrack == Tok("[", S(""))
RBrack == Tok("]", S(""))
Colon  == Tok(":", S(""))
Comma  == Tok(",", S(""))
NL     == Tok("\n", S(""))
Str(v) == Tok("str", v)
Num(x) == Tok("num", S(x))

IsScalar(tok) == tok.t \in {"str", "num", "null"}

\* ------------------------------------------------------------ json.loads

\* A parsed JSON value: k is its kind; s the string (kind "str") or numeral
\* (kind "num"); m the members of an object, a function from key texts to
\* scalar values.
Scalar(tok) == [k |-> tok.t, s |-> tok.v, m |-> <<>>]
Object(m)   == [k |-> "obj", s |-> S(""), m |-> m]
Array       == [k |-> "arr", s |-> S(""), m |-> <<>>]

Parsed(v)  == [ok |-> TRUE, val |-> v, msg |-> S("")]
Failed(m)  == [ok |-> FALSE, val |-> Array, msg |-> S(m)]

\* str.strip applied by the decoder: whitespace on both sides is skipped.
RECURSIVE StripLeft(_)
StripLeft(toks) ==
    IF toks # <<>> /\ Head(toks) = NL THEN StripLeft(Tail(toks)) ELSE toks

RECURSIVE StripRight(_)
StripRight(toks) ==
    IF toks # <<>> /\ toks[Len(toks)] = NL
    THEN StripRight(SubSeq(toks, 1, Len(toks) - 1))
    ELSE toks

\* m with key k bound to v: a repeated key keeps the last value.
Bind(m, k, v) == [x \in (DOMAIN m) \cup {k} |-> IF x = k THEN v ELSE m[x]]

\* The members of an object from position i, after "{" or after ",":
\* key ":" scalar, then "," and more members, or "}".  The result carries the
\* position after the closing brace in field next.
RECURSIVE ParseMembers(_, _, _)
ParseMembers(toks, i, m) ==
    IF i > Len(toks) \/ toks[i].t # "str"
    THEN [ok |-> FALSE, m |-> m, next |-> i,
          msg |-> "Expecting property name enclosed in double quotes"]
    ELSE IF i + 1 > Len(toks) \/ toks[i + 1] # Colon
    THEN [ok |-> FALSE, m |-> m, next |-> i, msg |-> "Expecting ':' delimiter"]
    ELSE IF i + 2 > Len(toks) \/ ~IsScalar(toks[i + 2])
    THEN [ok |-> FALSE, m |-> m, next |-> i, msg |-> "Expecting value"]
    ELSE LET m2 == Bind(m, toks[i].v.s, Scalar(toks[i + 2]))
         IN  IF i + 3 > Len(toks)
             THEN [ok |-> FALSE, m |-> m2, next |-> i,
                   msg |-> "Expecting ',' delimiter"]
             ELSE IF toks[i + 3] = RBrace
             THEN [ok |-> TRUE, m |-> m2, next |-> i + 4, msg |-> ""]
             ELSE IF toks[i + 3] = Comma
             THEN ParseMembers(toks, i + 4, m2)
             ELSE [ok |-> FALSE, m |-> m2, next |-> i,
                   msg |-> "Expecting ',' delimiter"]

\* json.loads(line) on the JSON subset of the request lines: a scalar, the
\* empty array, or an object whose member values are scalars.
JsonLoads(line) ==
    LET toks == StripRight(StripLeft(line))
        Rest(v, next) ==
            IF next > Len(toks) THEN Parsed(v) ELSE Failed("Extra data")
    IN  IF toks = <<>> THEN Failed("Expecting value")
        ELSE IF IsScalar(toks[1]) THEN Rest(Scalar(toks[1]), 2)
        ELSE IF toks[1] = LBrack
        THEN IF Len(toks) >= 2 /\ toks[2] = RBrack
             THEN Rest(Array, 3)
             ELSE Failed("Expecting value")
        ELSE IF toks[1] = LBrace
        THEN IF Len(toks) >= 2 /\ toks[2] = RBrace
             THEN Rest(Object(<<>>), 3)
             ELSE LET r == ParseMembers(toks, 2, <<>>)
                  IN  IF r.ok THEN Rest(Object(r.m), r.next) ELSE Failed(r.msg)
        ELSE Failed("Expecting value")

\* ------------------------------------------------------------ json.dumps

\* Mutant of DumpsLine: every reply carries both keys.
DumpsBothKeys(key, value) ==
    <<LBrace, Str(S("response")), Colon, Str(value), Comma,
      Str(S("error")), Colon, Str(value), RBrace, NL>>

\* print(json.dumps({key: value})): the one-member object and the newline
\* that print appends.
DumpsLine(key, value) == <<LBrace, Str(S(key)), Colon, Str(value), RBrace, NL>>

\* ------------------------------------------------ tokenizer and language model

\* The prompts of the request lines and the number of tokens the tokenizer
\* turns each into (tokenizer(prompt, return_tensors="pt")); "long" and
\* "near" stand for prompts of MaxLength and MaxLength - 1 tokens.
PromptTokens(s) ==
    CASE s = ""     -> 0
      [] s = "hi"   -> 2
      [] s = "near" -> MaxLength - 1
      [] s = "long" -> MaxLength
      [] OTHER      -> 1

\* The number of tokens the model's default (greedy) decoding appends to a
\* prompt before it emits the end-of-text token, were there no length limit.
NaturalNew(s) ==
    CASE s = ""     -> 3
      [] s = "hi"   -> MaxLength + 50
      [] OTHER      -> 5

\* tokenizer(prompt, ...) raises ValueError unless the prompt is text.
TokenizerAccepts(prompt) == prompt.k = "str"

\* The tensor built by tokenizer(prompt, ...).to(device): the prompt's text
\* and its length in tokens.
TokenizerCall(prompt) == [s |-> prompt.s.s, n |-> PromptTokens(prompt.s.s)]

Min(a, b) == IF a < b THEN a ELSE b

\* The length in tokens of the sequence model.generate(**inputs,
\* max_length=MaxLength) returns: the prompt and what was appended to it.
\* Generation stops when the total length reaches max_length or at
\* end-of-text; a prompt already at or over max_length is not truncated, and
\* a library that does not reject it appends one token before the length
\* test stops generation.
GenerateLength(inputs) ==
    IF inputs.n >= MaxLength
    THEN inputs.n + 1
    ELSE Min(inputs.n + NaturalNew(inputs.s), MaxLength)

\* tokenizer.batch_decode(outputs)[0]: the prompt's text followed by the
\* generated tokens.
BatchDecode(outputs) == [s |-> outputs.s, gen |-> outputs.n - PromptTokens(outputs.s)]

\* The messages of the exceptions the library calls raise.
TokenizerTypeError == S("text input must be of type str")
LibraryError(site) == S(site)

\* data.get("prompt", ""): the member's value, or the default; a value that
\* is no dict has no attribute get.
HasGet(data) == data.k = "obj"
\* Mutant of DefaultPrompt: data.get("prompt"), whose default is None.
DefaultNone == [k |-> "null", s |-> S(""), m |-> <<>>]
DefaultPrompt == [k |-> "str", s |-> S(""), m |-> <<>>]
GetPrompt(data) ==
    IF "prompt" \in DOMAIN data.m THEN data.m["prompt"] ELSE DefaultPrompt
AttributeError == S("object has no attribute 'get'")

\* ----------------------------------------------------------- request lines

Request(v)  == <<LBrace, Str(S("prompt")), Colon, v, RBrace, NL>>
LineHi      == Request(Str(S("hi")))
LineEmpty   == Request(Str(S("")))
LineNear    == Request(Str(S("near")))
LineLong    == Request(Str(S("long")))
LineNumber  == Request(Num("5"))
LineNoKey   == <<LBrace, RBrace, NL>>
LineArray   == <<LBrack, RBrack, NL>>
LineBlank   == <<NL>>
LineBroken  == <<LBrace, Str(S("prompt")), NL>>
\* A last line that the stream ends without a newline.
LineNoEol   == <<LBrace, Str(S("prompt")), Colon, Str(S("hi")), RBrace>>
\* A line holding bytes that are not valid UTF-8.
LineBytes   == <<Tok("bytes", S("")), NL>>

Decodable(line) == \A i \in 1..Len(line) : line[i].t # "bytes"

\* The lines sys.stdin yields: each ends with its newline, except that the
\* last one may lack it; none is the empty string.
Lines == {LineHi, LineEmpty, LineNear, LineLong, LineNumber, LineNoKey,
          LineArray, LineBlank, LineBroken, LineNoEol}

EndsWithEol(line) == line # <<>> /\ line[Len(line)] = NL

Streams(lines) ==
    {st \in UNION {[1..n -> lines] : n \in 0..MaxLines} :
        \A i \in 1..Len(st) : i < Len(st) => EndsWithEol(st[i])}

\* ------------------------------------------------------------------ state

VARIABLES
    pc,         \* the statement main() is at
    stdin,      \* the lines not yet read
    line,       \* the loop variable
    nread,      \* how many lines the loop has read
    readLines,  \* history: the lines read, in order
    loaded,     \* tokenizer and model are loaded
    data,       \* json.loads(line)
    prompt,     \* data.get("prompt", "")
    inputs,     \* the tokenizer's output
    outputs,    \* model.generate's output
    text,       \* the decoded text
    err,        \* the exception caught by the per-line handler (str(e))
    crit,       \* the exception caught by the outer handler (str(e))
    stdout,     \* the lines written to stdout, each with the request it answers
    flushed,    \* how many lines of stdout have been flushed
    stderr,     \* the lines written to stderr
    exitCode,   \* the process's exit status, once main has ended
    why         \* how the process ended

vars == <<pc, stdin, line, nread, readLines, loaded, data, prompt, inputs,
          outputs, text, err, crit, stdout, flushed, stderr, exitCode, why>>

locals == <<data, prompt, inputs, outputs, text>>

NoData   == Array
NoTensor == [s |-> "", n |-> 0]

InitWith(streams) ==
    /\ pc = "start"
    /\ stdin \in streams
    /\ line = <<>>
    /\ nread = 0
    /\ readLines = <<>>
    /\ loaded = FALSE
    /\ data = NoData
    /\ prompt = NoData
    /\ inputs = NoTensor
    /\ outputs = NoTensor
    /\ text = S("")
    /\ err = S("")
    /\ crit = S("")
    /\ stdout = <<>>
    /\ flushed = 0
    /\ stderr = <<>>
    /\ exitCode = ExitSuccess
    /\ why = "running"

Init == InitWith(Streams(Lines))

\* A line of stderr: its bracketed tag, its message, and the request being
\* handled when it was written (0 outside the loop).
Diag(tag, msg) == [tag |-> tag, msg |-> msg, req |-> nread]

\* A line of stdout and the request being handled when it was written.
Reply(key, value) == [line |-> DumpsLine(key, value), req |-> nread]

\* sys.exit(1) in the outer handler.
CriticalExitCode == ExitFailure

\* Mutant of FlushedAfter: the write is not followed by a flush.
NoFlush(out) == flushed

\* The lines of stdout left in the buffer by a successful sys.stdout.flush().
FlushedAfter(out) == Len(out)

\* ---------------------------------------------------------------- startup

\* Lines 13-14: announce the model and the device on stderr.
Announce ==
    /\ pc = "start"
    /\ stderr' = Append(stderr, Diag("Python", S("Loading model")))
    /\ pc' = "load"
    /\ UNCHANGED <<stdin, line, nread, readLines, loaded, locals, err, crit,
                   stdout, flushed, exitCode, why>>

\* Lines 18-19: tokenizer and model load.
Load ==
    /\ pc = "load"
    /\ loaded' = TRUE
    /\ pc' = "ready"
    /\ UNCHANGED <<stdin, line, nread, readLines, locals, err, crit, stdout,
                   flushed, stderr, exitCode, why>>

\* Lines 18-19 raise: the outer handler (line 48) catches the exception.
LoadRaise ==
    /\ pc = "load"
    /\ crit' = LibraryError("load")
    /\ pc' = "critical"
    /\ UNCHANGED <<stdin, line, nread, readLines, loaded, locals, err, stdout,
                   flushed, stderr, exitCode, why>>

\* Lines 21-22: report readiness on stderr.
AnnounceReady ==
    /\ pc = "ready"
    /\ stderr' = Append(stderr, Diag("Python", S("Model loaded ready.")))
    /\ pc' = "read"
    /\ UNCHANGED <<stdin, line, nread, readLines, loaded, locals, err, crit,
                   stdout, flushed, exitCode, why>>

\* ------------------------------------------------------------- serve loop

\* Mutant of EofExitCode: the status tells whether a request failed.
EofExitAfterErrors ==
    IF \E i \in 1..Len(stderr) : stderr[i].tag = "Python Error"
    THEN ExitFailure
    ELSE ExitSuccess

\* The status of the interpreter when main returns.
EofExitCode == ExitSuccess

\* "if not line: break" (line 26): the test of the loop variable.
LoopBreaks(l) == Len(l) = 0

\* Lines 25-26: the for statement takes the next line of stdin; at end of
\* stream the loop ends, main returns and the interpreter exits.  A line
\* that is the empty string leaves the loop the same way.  (Where stdin's
\* error handler is surrogateescape, bytes that are not UTF-8 decode, and
\* the line is read like any other.)
ReadLine ==
    /\ pc = "read"
    /\ IF stdin = <<>>
       THEN /\ pc' = "finalize"
            /\ exitCode' = EofExitCode
            /\ why' = "eof"
            /\ UNCHANGED <<stdin, line, nread, readLines>>
       ELSE /\ line' = Head(stdin)
            /\ stdin' = Tail(stdin)
            /\ nread' = nread + 1
            /\ readLines' = Append(readLines, Head(stdin))
            /\ IF LoopBreaks(Head(stdin))
               THEN pc' = "finalize" /\ exitCode' = EofExitCode /\ why' = "break"
               ELSE pc' = "parse" /\ UNCHANGED <<exitCode, why>>
    /\ UNCHANGED <<loaded, locals, err, crit, stdout, flushed, stderr>>

\* Lines 29-30: parse the line and take its prompt.  json.loads raising, or
\* data having no get, goes to the per-line handler (line 43).
ParseLine ==
    /\ pc = "parse"
    /\ LET r == JsonLoads(line)
       IN  IF ~r.ok
           THEN /\ err' = r.msg
                /\ pc' = "report"
                /\ UNCHANGED <<data, prompt>>
           ELSE IF ~HasGet(r.val)
           THEN /\ data' = r.val
                /\ err' = AttributeError
                /\ pc' = "report"
                /\ UNCHANGED prompt
           ELSE /\ data' = r.val
                /\ prompt' = GetPrompt(r.val)
                /\ pc' = "tokenize"
                /\ UNCHANGED err
    /\ UNCHANGED <<stdin, line, nread, readLines, loaded, inputs, outputs,
                   text, crit, stdout, flushed, stderr, exitCode, why>>

\* Line 33: tokenize the prompt.
Tokenize ==
    /\ pc = "tokenize"
    /\ IF TokenizerAccepts(prompt)
       THEN /\ inputs' = TokenizerCall(prompt)
            /\ pc' = "generate"
            /\ UNCHANGED err
       ELSE /\ err' = TokenizerTypeError
            /\ pc' = "report"
            /\ UNCHANGED inputs
    /\ UNCHANGED <<stdin, line, nread, readLines, loaded, data, prompt,
                   outputs, text, crit, stdout, flushed, stderr, exitCode, why>>

\* A library call of the request (line 33, 35 or 36) raises.
Raise(at) ==
    /\ pc = at
    /\ err' = LibraryError(at)
    /\ pc' = "report"
    /\ UNCHANGED <<stdin, line, nread, readLines, loaded, locals, crit,
                   stdout, flushed, stderr, exitCode, why>>

\* Line 33 raises for another reason (moving the tensor to the device).
TokenizeRaise == Raise("tokenize")

\* Line 35: generate.
Generate ==
    /\ pc = "generate"
    /\ outputs' = [s |-> inputs.s, n |-> GenerateLength(inputs)]
    /\ pc' = "decode"
    /\ UNCHANGED <<stdin, line, nread, readLines, loaded, data, prompt,
                   inputs, text, err, crit, stdout, flushed, stderr, exitCode,
                   why>>

\* Line 35 raises (out of memory; a library that rejects a prompt of
\* max_length tokens or more).
GenerateRaise == Raise("generate")

\* Line 36: decode.
Decode ==
    /\ pc = "decode"
    /\ text' = BatchDecode(outputs)
    /\ pc' = "respond"
    /\ UNCHANGED <<stdin, line, nread, readLines, loaded, data, prompt,
                   inputs, outputs, err, crit, stdout, flushed, stderr,
                   exitCode, why>>

\* Line 36 raises.
DecodeRaise == Raise("decode")

\* Lines 40-41: write the response line and flush; back to the for statement.
WriteResponse ==
    /\ pc = "respond"
    /\ stdout' = Append(stdout, Reply("response", text))
    /\ flushed' = FlushedAfter(stdout')
    /\ pc' = "read"
    /\ UNCHANGED <<stdin, line, nread, readLines, loaded, locals, err, crit,
                   stderr, exitCode, why>>

\* Mutant of ReportError: the handler writes nothing to stderr.
ReportErrorQuiet ==
    /\ pc = "report"
    /\ pc' = "reply_error"
    /\ UNCHANGED <<stdin, line, nread, readLines, loaded, locals, err, crit,
                   stdout, flushed, stderr, exitCode, why>>

\* Line 44: the per-line handler writes the message to stderr.
ReportError ==
    /\ pc = "report"
    /\ stderr' = Append(stderr, Diag("Python Error", err))
    /\ pc' = "reply_error"
    /\ UNCHANGED <<stdin, line, nread, readLines, loaded, locals, err, crit,
                   stdout, flushed, exitCode, why>>

\* Lines 45-46: the per-line handler writes the error line and flushes; back
\* to the for statement.
WriteError ==
    /\ pc = "reply_error"
    /\ stdout' = Append(stdout, Reply("error", err))
    /\ flushed' = FlushedAfter(stdout')
    /\ pc' = "read"
    /\ UNCHANGED <<stdin, line, nread, readLines, loaded, locals, err, crit,
                   stderr, exitCode, why>>

\* Mutant of Critical: the outer handler reports and does not exit; the
\* process goes on to serve.
CriticalContinues ==
    /\ pc = "critical"
    /\ stderr' = Append(stderr, Diag("Python Critical Error", crit))
    /\ pc' = "read"
    /\ UNCHANGED <<stdin, line, nread, readLines, loaded, locals, err, crit,
                   stdout, flushed, exitCode, why>>

\* Lines 49-50: the outer handler writes the message to stderr and exits.
Critical ==
    /\ pc = "critical"
    /\ stderr' = Append(stderr, Diag("Python Critical Error", crit))
    /\ pc' = "finalize"
    /\ exitCode' = CriticalExitCode
    /\ why' = "critical"
    /\ UNCHANGED <<stdin, line, nread, readLines, loaded, locals, err, crit,
                   stdout, flushed>>

\* The interpreter shuts down: what is left in stdout's buffer is flushed
\* and the process ends with the status set so far.
Finalize ==
    /\ pc = "finalize"
    /\ flushed' = FlushedAfter(stdout)
    /\ pc' = "exited"
    /\ UNCHANGED <<stdin, line, nread, readLines, loaded, locals, err, crit,
                   stdout, stderr, exitCode, why>>

Next ==
    \/ Announce
    \/ Load
    \/ LoadRaise
    \/ AnnounceReady
    \/ ReadLine
    \/ ParseLine
    \/ Tokenize
    \/ TokenizeRaise
    \/ Generate
    \/ GenerateRaise
    \/ Decode
    \/ DecodeRaise
    \/ WriteResponse
    \/ ReportError
    \/ WriteError
    \/ Critical
    \/ Finalize

\* The program with stdin holding text and stdout and stderr accepting
\* every write.
Spec == Init /\ [][Next]_vars

\* ------------------------------------------------------- failing streams

\* The status of the interpreter when an exception leaves main uncaught.
UncaughtExitCode == ExitFailure

StreamError(site) == S(site)

\* An exception leaves main uncaught: the interpreter prints a traceback on
\* stderr, if stderr takes it, and exits.
Uncaught(shown) ==
    /\ pc' = "finalize"
    /\ exitCode' = UncaughtExitCode
    /\ why' = "uncaught"
    /\ stderr' = IF shown
                 THEN Append(stderr, Diag("Traceback", StreamError("stderr")))
                 ELSE stderr

\* Line 13 or 14 raises (stderr does not take the write): outside the try
\* statement, so uncaught.
AnnounceFault ==
    /\ pc = "start"
    /\ \E shown \in BOOLEAN : Uncaught(shown)
    /\ UNCHANGED <<stdin, line, nread, readLines, loaded, locals, err, crit,
                   stdout, flushed>>

\* Line 21 or 22 raises: inside the outer try statement.
AnnounceReadyFault ==
    /\ pc = "ready"
    /\ crit' = StreamError("stderr")
    /\ pc' = "critical"
    /\ UNCHANGED <<stdin, line, nread, readLines, loaded, locals, err, stdout,
                   flushed, stderr, exitCode, why>>

\* Mutant of ReadFault: the for statement is outside the outer try
\* statement, so the exception is uncaught.
ReadFaultUncaught ==
    /\ pc = "read"
    /\ \E i \in 1..Len(stdin) : ~Decodable(stdin[i])
    /\ Uncaught(TRUE)
    /\ UNCHANGED <<stdin, line, nread, readLines, loaded, locals, err, crit,
                   stdout, flushed>>

\* Line 25 raises: stdin's error handler is strict and the block of input
\* the for statement reads, which may reach past the next line, holds bytes
\* that do not decode.  The for statement is outside the per-line try
\* statement, so the outer handler catches the exception.
ReadFault ==
    /\ pc = "read"
    /\ \E i \in 1..Len(stdin) : ~Decodable(stdin[i])
    /\ crit' = StreamError("stdin")
    /\ pc' = "critical"
    /\ UNCHANGED <<stdin, line, nread, readLines, loaded, locals, err, stdout,
                   flushed, stderr, exitCode, why>>

\* Line 40 raises (nothing written), or line 40 writes and line 41 raises
\* (written, not flushed): inside the per-line try statement.
WriteResponseFault ==
    /\ pc = "respond"
    /\ \E written \in BOOLEAN :
          stdout' = IF written
                    THEN Append(stdout, Reply("response", text))
                    ELSE stdout
    /\ err' = StreamError("stdout")
    /\ pc' = "report"
    /\ UNCHANGED <<stdin, line, nread, readLines, loaded, locals, crit,
                   flushed, stderr, exitCode, why>>

\* Line 44 raises inside the per-line handler: the exception leaves the
\* handler and the loop, to the outer handler.
ReportErrorFault ==
    /\ pc = "report"
    /\ crit' = StreamError("stderr")
    /\ pc' = "critical"
    /\ UNCHANGED <<stdin, line, nread, readLines, loaded, locals, err, stdout,
                   flushed, stderr, exitCode, why>>

\* Line 45 raises (nothing written), or line 45 writes and line 46 raises,
\* inside the per-line handler: to the outer handler.
WriteErrorFault ==
    /\ pc = "reply_error"
    /\ \E written \in BOOLEAN :
          stdout' = IF written
                    THEN Append(stdout, Reply("error", err))
                    ELSE stdout
    /\ crit' = StreamError("stdout")
    /\ pc' = "critical"
    /\ UNCHANGED <<stdin, line, nread, readLines, loaded, locals, err,
                   flushed, stderr, exitCode, why>>

\* Line 49 raises inside the outer handler: sys.exit(1) is not reached and
\* the exception is uncaught.
CriticalFault ==
    /\ pc = "critical"
    /\ \E shown \in BOOLEAN : Uncaught(shown)
    /\ UNCHANGED <<stdin, line, nread, readLines, loaded, locals, err, crit,
                   stdout, flushed>>

\* A write to stdout or stderr has failed, or stdout holds unflushed lines:
\* the stream's buffer may hold text at shutdown.
MayHoldText ==
    \/ flushed < Len(stdout)
    \/ crit \in {StreamError("stdout"), StreamError("stderr")}
    \/ why = "uncaught"

\* The interpreter's flush of stdout or stderr at shutdown fails: the status
\* becomes 120 whatever it was.
FinalizeFault ==
    /\ pc = "finalize"
    /\ MayHoldText
    /\ exitCode' = 120
    /\ pc' = "exited"
    /\ UNCHANGED <<stdin, line, nread, readLines, loaded, locals, err, crit,
                   stdout, flushed, stderr, why>>

LinesIO == {LineHi, LineNoKey, LineBroken, LineBlank, LineBytes}

InitIO == InitWith(Streams(LinesIO))

NextIO ==
    \/ Next
    \/ AnnounceFault
    \/ AnnounceReadyFault
    \/ ReadFault
    \/ WriteResponseFault
    \/ ReportErrorFault
    \/ WriteErrorFault
    \/ CriticalFault
    \/ FinalizeFault

\* The program with stdin holding any bytes and stdout and stderr failing
\* any write.
SpecIO == InitIO /\ [][NextIO]_vars

\* ------------------------------------------------------------- properties

\* The replies written while request k was being handled.
RepliesTo(k) == {j \in 1..Len(stdout) : stdout[j].req = k}

\* The stderr lines written while request k was being handled.
DiagsOf(k) == {i \in 1..Len(stderr) : stderr[i].req = k}

\* The loop is done with request k: it is back at the for statement, or
\* main returned at end of stream.
Handled(k) ==
    /\ k \in 1..nread
    /\ \/ k < nread
       \/ pc = "read"
       \/ pc \in {"finalize", "exited"} /\ why = "eof"

\* What a caller reading stdout line j finds: the keys of the JSON object
\* and the value of a key.
ReplyKeys(j) ==
    LET r == JsonLoads(stdout[j].line)
    IN  IF r.ok /\ r.val.k = "obj" THEN DOMAIN r.val.m ELSE {}
ReplyValue(j, key) == JsonLoads(stdout[j].line).val.m[key].s

IsJson(l)   == JsonLoads(l).ok
IsObject(l) == IsJson(l) /\ JsonLoads(l).val.k = "obj"
\* A line {"prompt": p}.
IsRequest(l) == IsObject(l) /\ "prompt" \in DOMAIN JsonLoads(l).val.m
\* An object without the key prompt, or whose prompt is "".
PromptAbsentOrEmpty(l) ==
    /\ IsObject(l)
    /\ "prompt" \in DOMAIN JsonLoads(l).val.m =>
           JsonLoads(l).val.m["prompt"] = Scalar(Str(S("")))

LibrarySites == {"tokenize", "generate", "decode"}

\* C1: a handled request line {"prompt": p} has exactly one stdout line,
\* whose JSON object has the key response or the key error and no other;
\* no request ever has more than one; this with the library calls
\* succeeding or raising.
C1_OneReplyPerRequest ==
    \A k \in 1..nread :
        IsRequest(readLines[k]) =>
            /\ Cardinality(RepliesTo(k)) <= 1
            /\ Handled(k) => Cardinality(RepliesTo(k)) = 1
            /\ \A j \in RepliesTo(k) :
                   ReplyKeys(j) \in {{"response"}, {"error"}}

\* C1's case: one request answered with a response and another, whose
\* generation raised, with an error.
C1_Witness ==
    \E k1, k2 \in 1..nread :
        /\ Handled(k1) /\ Handled(k2)
        /\ IsRequest(readLines[k1]) /\ IsRequest(readLines[k2])
        /\ \E j \in RepliesTo(k1) : ReplyKeys(j) = {"response"}
        /\ \E j \in RepliesTo(k2) :
               /\ ReplyKeys(j) = {"error"}
               /\ ReplyValue(j, "error") = LibraryError("generate")

\* C2: a line that is not JSON gets one stdout line {"error": message}, one
\* stderr line with the same message, and no response line; after it the
\* process is at the for statement or past it, ending only at end of
\* stream, and the next line it reads is answered too.
C2_BadJsonReported ==
    \A k \in 1..nread :
        (~IsJson(readLines[k]) /\ Handled(k)) =>
            /\ Cardinality(RepliesTo(k)) = 1
            /\ Cardinality(DiagsOf(k)) = 1
            /\ \A j \in RepliesTo(k) : \A i \in DiagsOf(k) :
                   /\ ReplyKeys(j) = {"error"}
                   /\ ReplyValue(j, "error") = JsonLoads(readLines[k]).msg
                   /\ stderr[i].tag = "Python Error"
                   /\ stderr[i].msg = ReplyValue(j, "error")
            /\ pc \in {"finalize", "exited"} => why = "eof" /\ stdin = <<>>
            /\ (k < nread /\ Handled(k + 1)) => RepliesTo(k + 1) # {}

\* C2's case: a line that is not JSON was answered and the line after it
\* was read and answered with a response.
C2_Witness ==
    \E k \in 1..nread :
        /\ k < nread
        /\ ~IsJson(readLines[k]) /\ readLines[k] # LineBlank
        /\ Handled(k + 1)
        /\ \E j \in RepliesTo(k + 1) : ReplyKeys(j) = {"response"}

\* The replies the code computes for a line: the error of the parse, of the
\* missing get or of the tokenizer's type check; else the response decoded
\* from what the prompt generates, or the error of a library call raising.
RepliesFor(l) ==
    LET r == JsonLoads(l)
        p == GetPrompt(r.val)
        out == [s |-> p.s.s, n |-> GenerateLength(TokenizerCall(p))]
    IN  IF ~r.ok THEN {DumpsLine("error", r.msg)}
        ELSE IF ~HasGet(r.val) THEN {DumpsLine("error", AttributeError)}
        ELSE IF ~TokenizerAccepts(p)
        THEN {DumpsLine("error", TokenizerTypeError),
              DumpsLine("error", LibraryError("tokenize"))}
        ELSE {DumpsLine("response", BatchDecode(out))}
             \cup {DumpsLine("error", LibraryError(site)) : site \in LibrarySites}

\* C9: requests are handled one at a time, in order: stdout has as many
\* lines as were read, or one less while the last one read is being
\* handled; the k-th stdout line was written while handling the k-th input
\* line and is a reply to it; and whenever the for statement is about to
\* read, every line read has its reply written and flushed.
C9_InOrderOneAtATime ==
    /\ Len(stdout) \in {nread, nread - 1}
    /\ \A j \in 1..Len(stdout) :
           /\ stdout[j].req = j
           /\ stdout[j].line \in RepliesFor(readLines[j])
    /\ pc = "read" => Len(stdout) = nread /\ flushed = nread

\* C9's case: the reply to the first line is written and flushed, the
\* second line, a different one, is read and is being handled.
C9_Witness ==
    /\ nread = 2
    /\ Len(stdout) = 1
    /\ flushed = 1
    /\ readLines[1] # readLines[2]
    /\ pc = "generate"

\* The ready message is on stderr: the serve loop was entered.
Serving ==
    \E i \in 1..Len(stderr) : stderr[i].msg = S("Model loaded ready.")

Ended == pc = "exited"

\* C3 as stated: once the model has loaded and the loop is entered, the
\* process ends only at the end of the input, every line of stdin having
\* been read and answered.
C3_OnlyEndOfInputEndsServing ==
    (Ended /\ Serving) =>
        /\ why = "eof"
        /\ stdin = <<>>
        /\ \A k \in 1..nread : RepliesTo(k) # {}

\* C4 as stated: a blank line read by the loop ends the loop: it gets no
\* stdout line, no line is read after it, and the process ends with
\* status 0.
C4_BlankLineEndsLoop ==
    \A k \in 1..nread :
        readLines[k] = LineBlank =>
            /\ RepliesTo(k) = {}
            /\ nread = k
            /\ pc \in {"finalize", "exited"}
            /\ exitCode = ExitSuccess

\* C5: when loading fails the process goes to the outer handler and ends:
\* it does not load again, reads no line of stdin, writes nothing to
\* stdout, and ends with a nonzero status after a Critical Error line that
\* carries the failure's message.
C5_LoadFailureIsFatal ==
    crit = LibraryError("load") =>
        /\ ~loaded
        /\ pc \in {"critical", "finalize", "exited"}
        /\ nread = 0
        /\ stdout = <<>>
        /\ pc \in {"finalize", "exited"} =>
               /\ exitCode # ExitSuccess
               /\ stderr[Len(stderr)].tag = "Python Critical Error"
               /\ stderr[Len(stderr)].msg = crit

\* C5's case: loading failed with requests waiting on stdin, and the
\* process has ended.
C5_Witness ==
    /\ Ended
    /\ crit = LibraryError("load")
    /\ Len(stdin) = MaxLines

ErrorReplies == {j \in 1..Len(stdout) : ReplyKeys(j) = {"error"}}

\* C6: a process that ends because stdin reached end of stream, which
\* happens only after a successful load, ends with status 0 whatever the
\* replies were; a process that ends without the model loaded ends with a
\* nonzero status.
C6_ExitCodes ==
    /\ (pc \in {"finalize", "exited"} /\ why = "eof") =>
           /\ loaded
           /\ stdin = <<>>
           /\ exitCode = ExitSuccess
    /\ (pc \in {"finalize", "exited"} /\ ~loaded) => exitCode # ExitSuccess

\* C6's case: the process ended at end of stream after answering every
\* request with an error.
C6_Witness ==
    /\ Ended
    /\ why = "eof"
    /\ nread = MaxLines
    /\ Cardinality(ErrorReplies) = MaxLines

\* The length in tokens of the sequence decoded into stdout line j.
ResponseTokens(j) ==
    LET t == ReplyValue(j, "response") IN PromptTokens(t.s) + t.gen

\* C7 as stated: the sequence decoded into a response never exceeds
\* MaxLength tokens.
C7_ResponseWithinMaxLength ==
    \A j \in 1..Len(stdout) :
        ReplyKeys(j) = {"response"} => ResponseTokens(j) <= MaxLength

\* The response to the request {"prompt": ""}.
EmptyPromptResponse == DumpsLine("response",
    BatchDecode([s |-> "", n |-> GenerateLength([s |-> "", n |-> PromptTokens("")])]))

\* C8 as stated: a request whose prompt is absent or empty gets a response.
C8_EmptyPromptAlwaysResponse ==
    \A k \in 1..nread :
        (PromptAbsentOrEmpty(readLines[k]) /\ Handled(k)) =>
            \E j \in RepliesTo(k) : ReplyKeys(j) = {"response"}

\* C8, amended: a request whose prompt is absent or empty reaches the
\* tokenizer with the prompt "", and gets one reply: the response to
\* {"prompt": ""}, or, when a library call raised, that call's error.
C8_DefaultPrompt ==
    /\ (pc \in {"tokenize", "generate", "decode", "respond"}
            /\ PromptAbsentOrEmpty(line)) =>
           prompt = Scalar(Str(S("")))
    /\ \A k \in 1..nread :
           (PromptAbsentOrEmpty(readLines[k]) /\ Handled(k)) =>
               /\ Cardinality(RepliesTo(k)) = 1
               /\ \A j \in RepliesTo(k) :
                      \/ stdout[j].line = EmptyPromptResponse
                      \/ \E site \in LibrarySites :
                             stdout[j].line = DumpsLine("error", LibraryError(site))

\* C8's case: {} and {"prompt": ""} were both handled and got the same
\* response.
C8_Witness ==
    /\ nread = 2
    /\ Handled(2)
    /\ readLines[1] = LineNoKey
    /\ readLines[2] = LineEmpty
    /\ stdout[1].line = stdout[2].line
    /\ ReplyKeys(1) = {"response"}

StreamSites == {"stdin", "stdout", "stderr"}

LastDiagIsCritical ==
    /\ stderr # <<>>
    /\ stderr[Len(stderr)].tag = "Python Critical Error"
    /\ stderr[Len(stderr)].msg = crit

\* C10 as stated: a serve loop that ends otherwise than at end of stream
\* ends with a Critical Error line on stderr and status 1.
C10_CriticalLineAndStatusOne ==
    (Ended /\ Serving /\ why # "eof") =>
        /\ LastDiagIsCritical
        /\ exitCode = ExitFailure

\* C10, amended: the outer handler encloses the serve loop: a serve loop
\* that ends otherwise than at end of stream ends through the outer
\* handler, on a failure of stdin, stdout or stderr, and never serves
\* again; when the handler's write succeeds the Critical Error line is the
\* last of stderr, and when it fails the exception is uncaught; the status
\* is nonzero either way: 1, or 120 when the flush of stdout or stderr at
\* shutdown fails.
C10_OuterHandlerEnclosesLoop ==
    /\ crit # S("") =>
           /\ pc \in {"critical", "finalize", "exited"}
           /\ why \in {"running", "critical", "uncaught"}
    /\ (pc \in {"finalize", "exited"} /\ Serving /\ why # "eof") =>
           /\ crit \in {StreamError(x) : x \in StreamSites}
           /\ why \in {"critical", "uncaught"}
           /\ why = "critical" => LastDiagIsCritical
           /\ \/ exitCode = ExitFailure
              \/ exitCode = 120 /\ Ended /\ MayHoldText

\* C10's case: the model loaded, a reply was written and flushed, then the
\* outer handler ended the process with status 1.
C10_Witness ==
    /\ Ended
    /\ loaded
    /\ flushed >= 1
    /\ why = "critical"
    /\ LastDiagIsCritical
    /\ exitCode = ExitFailure

====
